---- MODULE Spec2Model ----
(***************************************************************************)
(* A model of the dynamic value type of corelib (value.rs) and of the      *)
(* function adapter generator of codegen (to_function.rs).                 *)
(*                                                                         *)
(* Representation of the Rust data:                                        *)
(*   String, &str   the UTF-8 bytes of the text, a sequence over 0..255    *)
(*   Vec<u8>        a sequence over 0..255                                 *)
(*   i64 .. u8      the two's complement bit pattern, as little-endian     *)
(*                  limbs of 16 bits (an 8-bit integer is one limb < 256)  *)
(*   f64, f32       the decimal the float displays as: sign, mantissa not  *)
(*                  divisible by ten, power of ten; or NaN, or an infinity *)
(*   Result<T, E>   Ok(v) or Err(kind)                                     *)
(***************************************************************************)
EXTENDS Integers, Sequences, FiniteSets, TLC

VARIABLES pc,            \* the position of the operation under way
          text,          \* the &str handed to from_str, or displayed from value
          value,         \* a Value
          parsed,        \* the Result of from_str
          native,        \* a native value: its type and its bits
          target,        \* the type a Value is converted into
          result,        \* the Result of the conversion
          sig,           \* input.sig.inputs: the parameters of the function
          args_body,     \* the extractions impl_function builds
          function_impl, \* the tokens impl_function returns
          store,         \* the Argument Store of one invocation
          extracted,     \* the arguments extracted so far
          calls,         \* how often the native function was called
          called_with,   \* the arguments it was called with
          outcome        \* the Result of the invocation

textVars == <<text, value, parsed>>
convVars == <<native, target, result>>
adapterVars == <<sig, args_body, function_impl, store, extracted, calls, called_with, outcome>>
vars == <<pc, textVars, convVars, adapterVars>>

(***************************************************************************)
(* Bounds of the model.                                                    *)
(***************************************************************************)
\* Texts are built of at most MaxTokens tokens.
MaxTokens == 3
\* Byte vectors hold at most MaxBytes bytes.
MaxBytes == 2
\* A function has at most MaxParams parameters.
MaxParams == 3
\* An Argument Store holds at most MaxArgs values.
MaxArgs == 3

(***************************************************************************)
(* enum Value: the variant and its payload.                                *)
(***************************************************************************)
String(s) == [tag |-> "String", val |-> s]
Integer(n) == [tag |-> "Integer", val |-> n]
Number(x) == [tag |-> "Number", val |-> x]
Boolean(b) == [tag |-> "Boolean", val |-> b]
Bytes(v) == [tag |-> "Bytes", val |-> v]
Nil == [tag |-> "Nil", val |-> <<>>]

(***************************************************************************)
(* Text: the bytes of ASCII characters.                                    *)
(***************************************************************************)
Asc ==
  [c \in {"t","r","u","e","f","a","l","s","n","N","U","L","i","I","m","y","h","o",".","-","+","_",
          "0","1","2","3","4","5","6","7","8","9"} |->
     CASE c = "t" -> 116 [] c = "r" -> 114 [] c = "u" -> 117 [] c = "e" -> 101
       [] c = "f" -> 102 [] c = "a" -> 97  [] c = "l" -> 108 [] c = "s" -> 115
       [] c = "n" -> 110 [] c = "N" -> 78  [] c = "U" -> 85  [] c = "L" -> 76
       [] c = "i" -> 105 [] c = "I" -> 73  [] c = "m" -> 109 [] c = "y" -> 121
       [] c = "h" -> 104 [] c = "o" -> 111
       [] c = "." -> 46
       [] c = "-" -> 45  [] c = "+" -> 43  [] c = "_" -> 95
       [] c = "0" -> 48  [] c = "1" -> 49  [] c = "2" -> 50  [] c = "3" -> 51
       [] c = "4" -> 52  [] c = "5" -> 53  [] c = "6" -> 54  [] c = "7" -> 55
       [] c = "8" -> 56  [] c = "9" -> 57]

\* The text whose characters are cs.
S(cs) == [i \in 1..Len(cs) |-> Asc[cs[i]]]

\* str::contains(pat), for a pattern that is not empty.
Contains(s, p) == \E i \in 0..(Len(s) - Len(p)) : SubSeq(s, i + 1, i + Len(p)) = p

\* str::to_ascii_lowercase
Lower(s) == [i \in 1..Len(s) |-> IF s[i] \in 65..90 THEN s[i] + 32 ELSE s[i]]

IsDigit(b) == b \in 48..57

AllDigits(s) == \A i \in 1..Len(s) : IsDigit(s[i])

RECURSIVE Zeros(_)
Zeros(n) == IF n <= 0 THEN <<>> ELSE <<48>> \o Zeros(n - 1)

(***************************************************************************)
(* Result<T, Error>.                                                       *)
(***************************************************************************)
Ok(v) == [ok |-> TRUE, val |-> v]
Err(kind) == [ok |-> FALSE, err |-> kind]
\* No result yet.
Pending == [pending |-> TRUE]

(***************************************************************************)
(* Machine integers as limbs.                                              *)
(***************************************************************************)
Base == 65536
HalfBase == 32768

I64Zero == <<0, 0, 0, 0>>
I64Max == <<65535, 65535, 65535, 32767>>
I64Min == <<0, 0, 0, 32768>>

\* l * m + c over the limbs from i on, the carry out as a last limb.
RECURSIVE MulAddFrom(_, _, _, _)
MulAddFrom(l, i, m, c) ==
  IF i > Len(l) THEN <<c>>
  ELSE LET t == l[i] * m + c
       IN <<t % Base>> \o MulAddFrom(l, i + 1, m, t \div Base)

\* Two's complement negation of a 64-bit pattern.
NegI64(l) == SubSeq(MulAddFrom([i \in 1..4 |-> 65535 - l[i]], 1, 1, 1), 1, 4)

\* The 64-bit pattern of a small integer n.
I64(n) == IF n >= 0 THEN <<n % Base, n \div Base, 0, 0>>
          ELSE NegI64(<<(-n) % Base, (-n) \div Base, 0, 0>>)

IsNegI64(l) == l[4] >= HalfBase

\* Quotient and remainder of the unsigned limbs l[1..i] by ten, with r carried in.
RECURSIVE Div10From(_, _, _)
Div10From(l, i, r) ==
  IF i = 0 THEN [q |-> <<>>, r |-> r]
  ELSE LET t == r * Base + l[i]
           rest == Div10From(l, i - 1, t % 10)
       IN [q |-> Append(rest.q, t \div 10), r |-> rest.r]

RECURSIVE U64Digits(_)
U64Digits(l) ==
  IF l = I64Zero THEN <<>>
  ELSE LET d == Div10From(l, 4, 0) IN Append(U64Digits(d.q), 48 + d.r)

\* i64::to_string, which is what Display for i64 writes.
I64ToString(l) ==
  IF l = I64Zero THEN <<48>>
  ELSE IF IsNegI64(l) THEN <<45>> \o U64Digits(NegI64(l))
  ELSE U64Digits(l)

\* The unsigned value of a digit string as five limbs: the last one is not
\* zero when the value does not fit 64 bits.
RECURSIVE U64Accumulate(_, _, _)
U64Accumulate(digits, i, acc) ==
  IF i > Len(digits) THEN acc
  ELSE LET t == MulAddFrom(SubSeq(acc, 1, 4), 1, 10, digits[i] - 48)
       IN U64Accumulate(digits, i + 1,
                        Append(SubSeq(t, 1, 4), IF acc[5] # 0 THEN 1 ELSE t[5]))

\* str::parse::<i64>: an optional sign, then one digit or more, in range.
ParseI64(s) ==
  IF s = <<>> THEN Err("Empty")
  ELSE LET signed == s[1] \in {43, 45}
           digits == IF signed THEN Tail(s) ELSE s
           negative == s[1] = 45
       IN IF digits = <<>> \/ ~AllDigits(digits) THEN Err("InvalidDigit")
          ELSE LET acc == U64Accumulate(digits, 1, <<0, 0, 0, 0, 0>>)
                   mag == SubSeq(acc, 1, 4)
               IN IF negative
                  THEN IF acc[5] # 0 \/ (IsNegI64(mag) /\ mag # I64Min)
                       THEN Err("NegOverflow") ELSE Ok(NegI64(mag))
                  ELSE IF acc[5] # 0 \/ IsNegI64(mag)
                       THEN Err("PosOverflow") ELSE Ok(mag)

(***************************************************************************)
(* Floats as decimals: 0.d1 d2 .. dk * 10^exp is written mant = <<d1 .. dk>>  *)
(* with d1 and dk not zero, and zero is the empty mantissa. A decimal of   *)
(* 15 digits or fewer names one f64 and is what that f64 displays as.      *)
(***************************************************************************)
NaN == [cls |-> "nan", neg |-> FALSE, mant |-> <<>>, exp |-> 0]
Inf(neg) == [cls |-> "inf", neg |-> neg, mant |-> <<>>, exp |-> 0]

\* The f64 of the digits d, read as the whole number d times 10^exp.
RECURSIVE Dec(_, _, _)
Dec(neg, d, exp) ==
  IF d = <<>> THEN [cls |-> "fin", neg |-> neg, mant |-> <<>>, exp |-> 0]
  ELSE IF d[Len(d)] = 48 THEN Dec(neg, SubSeq(d, 1, Len(d) - 1), exp + 1)
  ELSE IF d[1] = 48 THEN Dec(neg, Tail(d), exp)
  ELSE [cls |-> "fin", neg |-> neg, mant |-> d, exp |-> exp + Len(d)]

\* The largest and the smallest power of ten of a finite f64 that is not zero.
F64MaxExp10 == 309
F64MinExp10 == -323

RECURSIVE DigitsValue(_, _, _)
DigitsValue(s, i, acc) ==
  IF i > Len(s) THEN acc ELSE DigitsValue(s, i + 1, acc * 10 + (s[i] - 48))

RECURSIVE NatDigits(_)
NatDigits(n) == IF n = 0 THEN <<>> ELSE Append(NatDigits(n \div 10), 48 + (n % 10))

\* The length of the longest prefix of s made of digits.
RECURSIVE DigitRun(_)
DigitRun(s) == IF s # <<>> /\ IsDigit(s[1]) THEN 1 + DigitRun(Tail(s)) ELSE 0

\* The exponent part of a float literal: nothing, or e, a sign or none, digits.
ParseExp(s) ==
  IF s = <<>> THEN Ok(0)
  ELSE IF s[1] \notin {101, 69} THEN Err("Invalid")
  ELSE LET r == Tail(s)
           signed == r # <<>> /\ r[1] \in {43, 45}
           digits == IF signed THEN Tail(r) ELSE r
       IN IF digits = <<>> \/ ~AllDigits(digits) THEN Err("Invalid")
          ELSE Ok(IF signed /\ r[1] = 45 THEN 0 - DigitsValue(digits, 1, 0)
                  ELSE DigitsValue(digits, 1, 0))

\* str::parse::<f64>: a sign or none, then inf, infinity or nan in any case,
\* or digits, "." or none, digits, with a digit on one side at least, and an
\* exponent or none. A value too large is an infinity, one too small is zero.
ParseF64(s) ==
  LET signed == s # <<>> /\ s[1] \in {43, 45}
      negative == signed /\ s[1] = 45
      body == IF signed THEN Tail(s) ELSE s
      ni == DigitRun(body)
      afterInt == SubSeq(body, ni + 1, Len(body))
      hasDot == afterInt # <<>> /\ afterInt[1] = 46
      fracOn == IF hasDot THEN Tail(afterInt) ELSE afterInt
      nf == IF hasDot THEN DigitRun(fracOn) ELSE 0
      e == ParseExp(SubSeq(fracOn, nf + 1, Len(fracOn)))
  IN IF Lower(body) \in {S(<<"i", "n", "f">>), S(<<"i", "n", "f", "i", "n", "i", "t", "y">>)}
     THEN Ok(Inf(negative))
     ELSE IF Lower(body) = S(<<"n", "a", "n">>) THEN Ok(NaN)
     ELSE IF ni + nf = 0 \/ ~e.ok THEN Err("Invalid")
     ELSE LET x == Dec(negative, SubSeq(body, 1, ni) \o SubSeq(fracOn, 1, nf), e.val - nf)
          IN IF x.mant # <<>> /\ x.exp > F64MaxExp10 THEN Ok(Inf(negative))
             ELSE IF x.mant # <<>> /\ x.exp < F64MinExp10 THEN Ok(Dec(negative, <<>>, 0))
             ELSE Ok(x)

\* f64::to_string, which is what Display for f64 writes: the shortest
\* decimal, never with an exponent, and no ".0" for a whole number.
F64ToString(x) ==
  IF x.cls = "nan" THEN S(<<"N", "a", "N">>)
  ELSE LET sign == IF x.neg THEN <<45>> ELSE <<>>
       IN IF x.cls = "inf" THEN sign \o S(<<"i", "n", "f">>)
          ELSE IF x.mant = <<>> THEN sign \o <<48>>
          ELSE LET d == x.mant
                   k == Len(d)
               IN IF x.exp >= k THEN sign \o d \o Zeros(x.exp - k)
                  ELSE IF x.exp > 0
                       THEN sign \o SubSeq(d, 1, x.exp) \o <<46>> \o SubSeq(d, x.exp + 1, k)
                  ELSE sign \o <<48, 46>> \o Zeros(0 - x.exp) \o d

\* str::parse::<bool>
ParseBool(s) ==
  IF s = S(<<"t", "r", "u", "e">>) THEN Ok(TRUE)
  ELSE IF s = S(<<"f", "a", "l", "s", "e">>) THEN Ok(FALSE)
  ELSE Err("ParseBool")

\* map(f).unwrap_or(Value::Nil): a failed parse gives Nil, not the text.
MapOr_nil(r, tag, default) == IF r.ok THEN [tag |-> tag, val |-> r.val] ELSE Nil

\* Result::map(f).unwrap_or(default), with f a variant of Value
MapOr(r, tag, default) == IF r.ok THEN [tag |-> tag, val |-> r.val] ELSE default

\* s.to_lowercase() == "null": every casing of null.
IsNull_ignore_case(s) == Lower(s) = S(<<"n", "u", "l", "l">>)

\* s == "null" || s == "NULL" || s == "Null"
IsNull(s) ==
  s = S(<<"n", "u", "l", "l">>) \/ s = S(<<"N", "U", "L", "L">>) \/ s = S(<<"N", "u", "l", "l">>)

\* s == "nil" || s == "Nil"
IsNil(s) == s = S(<<"n", "i", "l">>) \/ s = S(<<"N", "i", "l">>)

\* from_str with the float parse tried on every text, "." or not.
from_str_any_float(s) ==
  LET v == IF Contains(s, S(<<"f", "a", "l", "s", "e">>)) \/ Contains(s, S(<<"t", "r", "u", "e">>))
           THEN MapOr(ParseBool(s), "Boolean", String(s))
           ELSE IF ParseF64(s).ok
           THEN MapOr(ParseF64(s), "Number", String(s))
           ELSE IF IsNull(s)
           THEN Nil
           ELSE IF IsNil(s)
           THEN Nil
           ELSE MapOr(ParseI64(s), "Integer", String(s))
  IN Ok(v)

\* impl FromStr for Value
from_str(s) ==
  LET v == IF Contains(s, S(<<"f", "a", "l", "s", "e">>)) \/ Contains(s, S(<<"t", "r", "u", "e">>))
           THEN MapOr(ParseBool(s), "Boolean", String(s))
           ELSE IF Contains(s, S(<<".">>))
           THEN MapOr(ParseF64(s), "Number", String(s))
           ELSE IF IsNull(s)
           THEN Nil
           ELSE IF IsNil(s)
           THEN Nil
           ELSE MapOr(ParseI64(s), "Integer", String(s))
  IN Ok(v)

\* impl Display for Value, as to_string() gives it; a byte vector is written
\* as the list of its numbers.
RECURSIVE ByteList(_, _)
ByteList(v, i) ==
  IF i > Len(v) THEN <<>>
  ELSE (IF i > 1 THEN <<44, 32>> ELSE <<>>)
       \o (IF v[i] = 0 THEN <<48>> ELSE NatDigits(v[i])) \o ByteList(v, i + 1)

to_string(v) ==
  CASE v.tag = "String" -> v.val
    [] v.tag = "Integer" -> I64ToString(v.val)
    [] v.tag = "Number" -> F64ToString(v.val)
    [] v.tag = "Boolean" -> IF v.val THEN S(<<"t", "r", "u", "e">>)
                            ELSE S(<<"f", "a", "l", "s", "e">>)
    [] v.tag = "Bytes" -> <<91>> \o ByteList(v.val, 1) \o <<93>>
    [] v.tag = "Nil" -> S(<<"N", "i", "l">>)

(***************************************************************************)
(* Native types and the casts between them.                                *)
(***************************************************************************)
IntTypes == {"i64", "i32", "i16", "i8", "u32", "u16", "u8"}
SignedTypes == {"i64", "i32", "i16", "i8"}
FloatTypes == {"f64", "f32"}
\* The types with TryFrom<Value>.
TargetTypes == IntTypes \cup FloatTypes \cup {"bool", "Bytes", "String"}

\* The number of limbs of an integer type, and what its one or last limb is below.
Limbs(T) == CASE T = "i64" -> 4 [] T \in {"i32", "u32"} -> 2 [] OTHER -> 1
TopLimit(T) == IF T \in {"i8", "u8"} THEN 256 ELSE Base

\* val as i32 as T: the cast goes through 32 bits whatever T is.
Cast_via_i32(l, T) ==
  LET low == IF l[2] >= HalfBase THEN <<l[1], l[2], 65535, 65535>> ELSE <<l[1], l[2], 0, 0>>
  IN IF T \in {"i8", "u8"} THEN <<low[1] % 256>> ELSE SubSeq(low, 1, Limbs(T))

\* val as T, of an i64: the low bits are kept.
Cast(l, T) == IF T \in {"i8", "u8"} THEN <<l[1] % 256>> ELSE SubSeq(l, 1, Limbs(T))

\* i64::from(n), of an n of type T: the sign of a signed T fills the high bits.
Extend(n, T) ==
  LET top == n[Len(n)]
      negative == T \in SignedTypes /\ top >= TopLimit(T) \div 2
      fill == IF negative THEN 65535 ELSE 0
      high == IF negative THEN top + (Base - TopLimit(T)) ELSE top
  IN [i \in 1..4 |-> IF i < Len(n) THEN n[i] ELSE IF i = Len(n) THEN high ELSE fill]

RECURSIVE Pow(_, _)
Pow(b, n) == IF n <= 0 THEN 1 ELSE b * Pow(b, n - 1)

\* The bits of the mantissa of an f32, the decimal digits every f32 keeps,
\* and the largest and the smallest power of ten of a finite f32 that is not zero.
F32MantBits == 24
F32Digits == 6
F32MaxExp10 == 39
F32MinExp10 == -44

\* The least sh with m < 2^(F32MantBits + sh).
RECURSIVE ShiftFor(_, _)
ShiftFor(m, sh) == IF m \div Pow(2, sh) < Pow(2, F32MantBits) THEN sh ELSE ShiftFor(m, sh + 1)

\* val as f32, of an f64: the nearest f32, ties to the even mantissa. A decimal
\* of more than F32Digits digits is rounded in binary, which takes it to be a
\* whole number of units 2^-k below 2^31.
AsF32(x) ==
  IF x.cls # "fin" \/ x.mant = <<>> THEN x
  ELSE IF x.exp > F32MaxExp10 THEN Inf(x.neg)
  ELSE IF x.exp < F32MinExp10 THEN Dec(x.neg, <<>>, 0)
  ELSE IF Len(x.mant) <= F32Digits THEN x
  ELSE LET n == DigitsValue(x.mant, 1, 0)
           e == x.exp - Len(x.mant)
           m == IF e >= 0 THEN n * Pow(10, e) ELSE n \div Pow(5, 0 - e)
           sh == ShiftFor(m, 0)
           q == m \div Pow(2, sh)
           r == m % Pow(2, sh)
           up == 2 * r > Pow(2, sh) \/ (sh > 0 /\ 2 * r = Pow(2, sh) /\ q % 2 = 1)
           rounded == (IF up THEN q + 1 ELSE q) * Pow(2, sh)
       IN IF e >= 0 THEN Dec(x.neg, NatDigits(rounded), 0)
          ELSE Dec(x.neg, NatDigits(rounded * Pow(5, 0 - e)), e)

\* core::str::from_utf8: the length of the well-formed sequence b starts with,
\* or 0.
Cont(b, i) == i <= Len(b) /\ b[i] \in 128..191

Utf8Step(b) ==
  LET c == b[1]
  IN IF c <= 127 THEN 1
     ELSE IF c \in 194..223 /\ Cont(b, 2) THEN 2
     ELSE IF c = 224 /\ Len(b) >= 2 /\ b[2] \in 160..191 /\ Cont(b, 3) THEN 3
     ELSE IF c \in (225..236) \cup {238, 239} /\ Cont(b, 2) /\ Cont(b, 3) THEN 3
     ELSE IF c = 237 /\ Len(b) >= 2 /\ b[2] \in 128..159 /\ Cont(b, 3) THEN 3
     ELSE IF c = 240 /\ Len(b) >= 2 /\ b[2] \in 144..191 /\ Cont(b, 3) /\ Cont(b, 4) THEN 4
     ELSE IF c \in 241..243 /\ Cont(b, 2) /\ Cont(b, 3) /\ Cont(b, 4) THEN 4
     ELSE IF c = 244 /\ Len(b) >= 2 /\ b[2] \in 128..143 /\ Cont(b, 3) /\ Cont(b, 4) THEN 4
     ELSE 0

RECURSIVE Utf8Valid(_)
Utf8Valid(b) ==
  b = <<>> \/ (Utf8Step(b) > 0 /\ Utf8Valid(SubSeq(b, Utf8Step(b) + 1, Len(b))))

\* String::from_utf8(vec): the same bytes, when they are UTF-8.
from_utf8(b) == IF Utf8Valid(b) THEN Ok(b) ELSE Err("DecodeError")

(***************************************************************************)
(* Native to Value and back.                                               *)
(***************************************************************************)
\* The variant a native type converts into and from.
VariantOf(T) ==
  CASE T \in IntTypes -> "Integer"
    [] T \in FloatTypes -> "Number"
    [] T = "bool" -> "Boolean"
    [] T = "Bytes" -> "Bytes"
    [] T \in {"String", "&str"} -> "String"
    [] T = "()" -> "Nil"

\* impl_into_value!, impl From<String> for Value, impl Into<Value> for ()
into_value(n) ==
  CASE n.ty \in IntTypes -> Integer(Extend(n.nat, n.ty))
    [] n.ty \in FloatTypes -> Number(n.nat)
    [] n.ty = "bool" -> Boolean(n.nat)
    [] n.ty = "Bytes" -> Bytes(n.nat)
    [] n.ty \in {"String", "&str"} -> String(n.nat)
    [] n.ty = "()" -> Nil

\* val as $T
As(val, T) ==
  CASE T \in IntTypes -> Cast(val, T)
    [] T = "f32" -> AsF32(val)
    [] OTHER -> val

\* T::default()
Default(T) ==
  CASE T \in IntTypes -> [i \in 1..Limbs(T) |-> 0]
    [] T \in FloatTypes -> Dec(FALSE, <<>>, 0)
    [] T = "bool" -> FALSE
    [] OTHER -> <<>>

\* impl_try_from! with Nil taken for the default of the type.
impl_try_from_nil_default(variant, T, v) ==
  IF v.tag = variant THEN Ok(As(v.val, T))
  ELSE IF v.tag = "Nil" THEN Ok(Default(T))
  ELSE Err("InvalidType")

\* impl_try_from! with <$T>::try_from(val) for the cast: an integer out of the
\* range of T is an error.
impl_try_from_checked(variant, T, v) ==
  IF v.tag = variant /\ (T \in IntTypes => Extend(Cast(v.val, T), T) = v.val)
  THEN Ok(As(v.val, T))
  ELSE Err("InvalidType")

\* impl_try_from!
impl_try_from(variant, T, v) ==
  IF v.tag = variant THEN Ok(As(v.val, T)) ELSE Err("InvalidType")

\* impl TryFrom<Value> for String with from_utf8_unchecked: no byte vector fails.
try_from_String_unchecked(v) ==
  IF v.tag = "Bytes" THEN Ok(v.val) ELSE Ok(to_string(v))

\* impl TryFrom<Value> for String
try_from_String(v) ==
  CASE v.tag = "String" -> Ok(v.val)
    [] v.tag = "Integer" -> Ok(I64ToString(v.val))
    [] v.tag = "Number" -> Ok(F64ToString(v.val))
    [] v.tag = "Boolean" -> Ok(IF v.val THEN S(<<"t", "r", "u", "e">>) ELSE S(<<"f", "a", "l", "s", "e">>))
    [] v.tag = "Bytes" -> from_utf8(v.val)
    [] v.tag = "Nil" -> Ok(S(<<"N", "i", "l">>))

\* T::try_from(value)
try_from(T, v) ==
  IF T = "String" THEN try_from_String(v) ELSE impl_try_from(VariantOf(T), T, v)

(***************************************************************************)
(* impl_function: the adapter of a function.                               *)
(***************************************************************************)
\* syn::FnArg::Receiver
IsReceiver(p) == p = "self"

\* syn::Type::Reference
IsReference(T) == T = "&Connection"

\* The iterator of lines 10 to 45 with enumerate() after filter(): an index
\* counts the parameters kept.
impl_function_index_after_filter(f) ==
  IF \E i \in 1..Len(f) : IsReceiver(f[i])
  THEN [panicked |-> TRUE, args_body |-> <<>>, function_impl |-> <<>>]
  ELSE LET kept == SelectSeq(f, LAMBDA T : ~IsReference(T))
       IN [panicked |-> FALSE,
           args_body |-> [j \in 1..Len(kept) |-> [index |-> j - 1, ty |-> kept[j]]],
           function_impl |-> f]

\* impl_function, of a function of parameters f: a receiver is
\* unimplemented!(); the parameters are numbered from 0, those of a reference
\* type are dropped, and each one left gives args.get::<ty>(index)?, an
\* argument of the call of the function in
\*   let value = name(args.get::<T>(i)?, ..)?;
\* The tokens returned are the function as it was given.
impl_function(f) ==
  IF \E i \in 1..Len(f) : IsReceiver(f[i])
  THEN [panicked |-> TRUE, args_body |-> <<>>, function_impl |-> <<>>]
  ELSE LET enumerated == [i \in 1..Len(f) |-> [index |-> i - 1, ty |-> f[i]]]
       IN [panicked |-> FALSE,
           args_body |-> SelectSeq(enumerated, LAMBDA a : ~IsReference(a.ty)),
           function_impl |-> f]

\* args.get::<T>(index): the value at the index, converted into a T; no value
\* there is a missing argument.
ArgsGet(args, index, T) ==
  IF index >= Len(args) THEN Err("MissingArgument") ELSE try_from(T, args[index + 1])

(***************************************************************************)
(* The inputs of the model.                                                *)
(***************************************************************************)
Tokens ==
  { S(<<"t", "r", "u", "e">>), S(<<"f", "a", "l", "s", "e">>),
    S(<<"n", "u", "l", "l">>), S(<<"N", "U", "L", "L">>), S(<<"N", "u", "l", "l">>),
    S(<<"n", "U", "L", "L">>), S(<<"N", "u", "L", "l">>),
    S(<<"n", "i", "l">>), S(<<"N", "i", "l">>), S(<<"N", "I", "L">>),
    S(<<".">>), S(<<"1", "0">>), S(<<"0", "1">>), S(<<"-">>), S(<<"+">>), S(<<"_">>),
    S(<<"e", "1">>), S(<<"N", "a", "m", "e">>) }

\* Texts of from_test, and the ends of i64.
TestTexts ==
  { S(<<"1", "0", ".", "0", "1">>), S(<<"1", "0", ".", "_">>),
    S(<<"9","2","2","3","3","7","2","0","3","6","8","5","4","7","7","5","8","0","7">>),
    S(<<"9","2","2","3","3","7","2","0","3","6","8","5","4","7","7","5","8","0","8">>),
    S(<<"-","9","2","2","3","3","7","2","0","3","6","8","5","4","7","7","5","8","0","8">>),
    S(<<"-","9","2","2","3","3","7","2","0","3","6","8","5","4","7","7","5","8","0","9">>) }

RECURSIVE TokenTexts(_)
TokenTexts(n) ==
  IF n = 0 THEN {<<>>}
  ELSE LET shorter == TokenTexts(n - 1)
       IN shorter \cup {t \o k : t \in shorter, k \in Tokens}

Texts == TokenTexts(MaxTokens) \cup TestTexts

\* The 16-bit limbs the integers of the model are made of.
LowLimbs == {0, 1, 10, 44, 127, 128, 255, 256, 300, 32767, 32768, 65535}
HighLimbs == {0, 1, 32767, 32768, 65535}
I64Values == {<<a, b, c, d>> : a \in LowLimbs, b \in HighLimbs, c \in HighLimbs, d \in HighLimbs}

F64Values ==
  {Dec(neg, d, exp) : neg \in BOOLEAN,
                      d \in {<<>>, S(<<"1">>), S(<<"5">>), S(<<"1", "5">>), S(<<"1", "0", "0", "1">>)},
                      exp \in {-3, -2, -1, 0, 1, 21}}
    \cup {NaN, Inf(FALSE), Inf(TRUE)}

\* The values whose variant is inferred from text.
TextValues ==
  {Integer(n) : n \in I64Values} \cup {Number(x) : x \in F64Values}
    \cup {Boolean(b) : b \in BOOLEAN} \cup {Nil}

\* Floats of the conversions. An f32 holds 0, 1, 10, 0.5, 1.5, 0.25 and 2^24
\* as they are; it does not hold 2^24 + 1, 2^25 + 3 and 2^23 + 0.5, nor 0.1 and
\* 10.01, which no binary float holds.
F32Values ==
  {Dec(neg, m[1], m[2]) :
     neg \in BOOLEAN,
     m \in { <<<<>>, 0>>, <<S(<<"1">>), 0>>, <<S(<<"1">>), 1>>, <<S(<<"5">>), -1>>,
             <<S(<<"1", "5">>), -1>>, <<S(<<"2", "5">>), -2>>,
             <<S(<<"1", "6", "7", "7", "7", "2", "1", "6">>), 0>> }}
    \cup {NaN, Inf(FALSE), Inf(TRUE)}

ConvF64Values ==
  F32Values \cup {Dec(FALSE, S(<<"1", "6", "7", "7", "7", "2", "1", "7">>), 0),
                  Dec(TRUE, S(<<"3", "3", "5", "5", "4", "4", "3", "5">>), 0),
                  Dec(FALSE, S(<<"8", "3", "8", "8", "6", "0", "8", "5">>), -1),
                  Dec(FALSE, S(<<"1">>), -1), Dec(FALSE, S(<<"1", "0", "0", "1">>), -2),
                  Dec(FALSE, S(<<"1">>), 21), Dec(FALSE, S(<<"1">>), 40)}

\* Bytes of one-, two- and three-byte sequences, a stray continuation and a
\* byte no UTF-8 text holds.
ByteSamples == {9, 18, 65, 128, 169, 195, 226, 255}

RECURSIVE ByteVectors(_)
ByteVectors(n) ==
  IF n = 0 THEN {<<>>}
  ELSE LET shorter == ByteVectors(n - 1)
       IN shorter \cup {Append(v, b) : v \in shorter, b \in ByteSamples}

\* A String holds UTF-8.
StringValues ==
  {v \in ByteVectors(MaxBytes) : Utf8Valid(v)}
    \cup {S(<<"N", "a", "m", "e">>), S(<<"1", "0">>), S(<<"t", "r", "u", "e">>), S(<<"N", "i", "l">>)}

IntValues(T) ==
  CASE T = "i64" -> I64Values
    [] T \in {"i32", "u32"} -> {<<a, b>> : a \in LowLimbs, b \in HighLimbs}
    [] T \in {"i16", "u16"} -> {<<a>> : a \in LowLimbs}
    [] T \in {"i8", "u8"} -> {<<a>> : a \in {b \in LowLimbs : b < 256}}

Natives ==
  UNION {{[ty |-> T, nat |-> n] : n \in IntValues(T)} : T \in IntTypes}
    \cup {[ty |-> "f64", nat |-> x] : x \in ConvF64Values}
    \cup {[ty |-> "f32", nat |-> x] : x \in F32Values}
    \cup {[ty |-> "bool", nat |-> b] : b \in BOOLEAN}
    \cup {[ty |-> "Bytes", nat |-> v] : v \in ByteVectors(MaxBytes)}
    \cup {[ty |-> T, nat |-> t] : T \in {"String", "&str"}, t \in StringValues}
    \cup {[ty |-> "()", nat |-> <<>>]}

ConvValues ==
  {Integer(n) : n \in I64Values} \cup {Number(x) : x \in ConvF64Values}
    \cup {Boolean(b) : b \in BOOLEAN} \cup {Bytes(v) : v \in ByteVectors(MaxBytes)}
    \cup {String(t) : t \in StringValues} \cup {Nil}

\* The types of the parameters, and the functions: a receiver comes first.
ParamTypes == {"i32", "String", "&Connection"}

RECURSIVE Signatures(_)
Signatures(n) ==
  IF n = 0 THEN {<<>>}
  ELSE LET shorter == Signatures(n - 1)
       IN shorter \cup {Append(f, T) : f \in shorter, T \in ParamTypes}

Functions ==
  Signatures(MaxParams) \cup {<<"self">> \o f : f \in Signatures(MaxParams - 1)}

ArgValues == {Integer(I64(10)), String(S(<<"h", "e", "l", "l", "o">>)), Bytes(<<255>>), Nil}

RECURSIVE Stores(_)
Stores(n) ==
  IF n = 0 THEN {<<>>}
  ELSE LET shorter == Stores(n - 1)
       IN shorter \cup {Append(a, v) : a \in shorter, v \in ArgValues}

\* No Value: the text did not come from one.
NoValue == [tag |-> "None", val |-> <<>>]
NoNative == [ty |-> "None", nat |-> <<>>]

(***************************************************************************)
(* Text to Value, and Value to text to Value.                              *)
(***************************************************************************)
ConvIdle == native = NoNative /\ target = "None" /\ result = Pending

AdapterIdle ==
  /\ sig = <<>> /\ args_body = <<>> /\ function_impl = <<>> /\ store = <<>>
  /\ extracted = <<>> /\ calls = 0 /\ called_with = <<>> /\ outcome = Pending

InitParse ==
  /\ \/ pc = "from_str" /\ text \in Texts /\ value = NoValue
     \/ pc = "to_string" /\ text = <<>> /\ value \in TextValues
  /\ parsed = Pending
  /\ ConvIdle
  /\ AdapterIdle

\* value.to_string(), the text a transport writes
Display ==
  /\ pc = "to_string"
  /\ text' = to_string(value)
  /\ pc' = "from_str"
  /\ UNCHANGED <<value, parsed, convVars, adapterVars>>

\* text.parse::<Value>()
FromStr ==
  /\ pc = "from_str"
  /\ parsed' = from_str(text)
  /\ pc' = "done"
  /\ UNCHANGED <<text, value, convVars, adapterVars>>

NextParse == Display \/ FromStr

SpecParse == InitParse /\ [][NextParse]_vars

(***************************************************************************)
(* Native to Value, and Value to native.                                   *)
(***************************************************************************)
InitConv ==
  /\ \/ pc = "into" /\ native \in Natives /\ value = NoValue
     \/ pc = "try_from" /\ native = NoNative /\ value \in ConvValues
  /\ target = "None"
  /\ result = Pending
  /\ text = <<>>
  /\ parsed = Pending
  /\ AdapterIdle

\* let value: Value = native.into()
Into ==
  /\ pc = "into"
  /\ value' = into_value(native)
  /\ pc' = "try_from"
  /\ UNCHANGED <<text, parsed, convVars, adapterVars>>

\* T::try_from(value)
TryFrom(T) ==
  /\ pc = "try_from"
  /\ target' = T
  /\ result' = try_from(T, value)
  /\ pc' = "converted"
  /\ UNCHANGED <<text, parsed, native, value, adapterVars>>

NextConv == Into \/ \E T \in TargetTypes : TryFrom(T)

SpecConv == InitConv /\ [][NextConv]_vars

(***************************************************************************)
(* The adapter: impl_function once, then one invocation, which runs        *)
(*   let value = name(args.get::<T>(i)?, ..)?;                             *)
(* argument by argument, from the left.                                    *)
(***************************************************************************)
InitAdapter ==
  /\ pc = "generate"
  /\ sig \in Functions
  /\ store \in Stores(MaxArgs)
  /\ args_body = <<>> /\ function_impl = <<>>
  /\ extracted = <<>> /\ calls = 0 /\ called_with = <<>> /\ outcome = Pending
  /\ text = <<>> /\ value = NoValue /\ parsed = Pending
  /\ ConvIdle

Generate ==
  /\ pc = "generate"
  /\ LET g == impl_function(sig)
     IN /\ args_body' = g.args_body
        /\ function_impl' = g.function_impl
        /\ pc' = IF g.panicked THEN "panicked" ELSE "extract"
  /\ UNCHANGED <<textVars, convVars, sig, store, extracted, calls, called_with, outcome>>

\* args.get::<T>(i).unwrap_or_default(): a failed extraction gives the default
\* of the type and the invocation goes on.
Extract_unwrap_or_default ==
  /\ pc = "extract"
  /\ Len(extracted) < Len(args_body)
  /\ LET a == args_body[Len(extracted) + 1]
         r == ArgsGet(store, a.index, a.ty)
     IN extracted' = Append(extracted, IF r.ok THEN r.val ELSE Default(a.ty))
  /\ UNCHANGED <<pc, textVars, convVars, sig, args_body, function_impl, store, calls,
                 called_with, outcome>>

\* args.get::<T>(i)?: the next argument, or the return of its error.
Extract ==
  /\ pc = "extract"
  /\ Len(extracted) < Len(args_body)
  /\ LET a == args_body[Len(extracted) + 1]
         r == ArgsGet(store, a.index, a.ty)
     IN IF r.ok
        THEN extracted' = Append(extracted, r.val) /\ UNCHANGED <<pc, outcome>>
        ELSE outcome' = r /\ pc' = "returned" /\ UNCHANGED extracted
  /\ UNCHANGED <<textVars, convVars, sig, args_body, function_impl, store, calls, called_with>>

\* name(..)?: the call, once every argument is there; the function returns Ok
\* or its own error, which is passed on as it is.
Call ==
  /\ pc = "extract"
  /\ Len(extracted) = Len(args_body)
  /\ calls' = calls + 1
  /\ called_with' = extracted
  /\ \E r \in {Ok(<<>>), Err("FunctionError")} : outcome' = r
  /\ pc' = "returned"
  /\ UNCHANGED <<textVars, convVars, sig, args_body, function_impl, store, extracted>>

NextAdapter == Generate \/ Extract \/ Call

SpecAdapter == InitAdapter /\ [][NextAdapter]_vars

(***************************************************************************)
(* The claims about parsing text.                                          *)
(***************************************************************************)
HasBool(s) == Contains(s, S(<<"f", "a", "l", "s", "e">>)) \/ Contains(s, S(<<"t", "r", "u", "e">>))

HasDot(s) == Contains(s, S(<<".">>))

NilSpellings ==
  { S(<<"n", "u", "l", "l">>), S(<<"N", "u", "l", "l">>), S(<<"N", "U", "L", "L">>),
    S(<<"n", "i", "l">>), S(<<"N", "i", "l">>) }

\* The assertions of from_test.
FromTestCases ==
  /\ text = S(<<"1", "0">>) => parsed = Ok(Integer(I64(10)))
  /\ text = S(<<"f", "a", "l", "s", "e">>) => parsed = Ok(Boolean(FALSE))
  /\ text = S(<<"t", "r", "u", "e">>) => parsed = Ok(Boolean(TRUE))
  /\ text = S(<<"1", "0", ".", "0", "1">>) => parsed = Ok(Number(Dec(FALSE, S(<<"1", "0", "0", "1">>), -2)))
  /\ text = S(<<"1", "0", ".", "_">>) => parsed = Ok(String(text))
  /\ text = S(<<"N", "a", "m", "e">>) => parsed = Ok(String(text))
  /\ text \in NilSpellings => parsed = Ok(Nil)

\* C1: from_str follows a fixed priority order for every text s: (1) s holds
\* "true" or "false": Boolean when s parses as a bool, else String(s); (2) else
\* s holds ".": Number when s parses as an f64, else String(s); (3) else s is one
\* of the null and nil spellings: Nil; (4) else Integer when s parses as an i64,
\* else String(s). The assertions of from_test hold.
C1_ParsePriority ==
  pc = "done" =>
    LET s == text
        b == ParseBool(s)
        x == ParseF64(s)
        n == ParseI64(s)
    IN /\ HasBool(s) => parsed = Ok(IF b.ok THEN Boolean(b.val) ELSE String(s))
       /\ ~HasBool(s) /\ HasDot(s) => parsed = Ok(IF x.ok THEN Number(x.val) ELSE String(s))
       /\ ~HasBool(s) /\ ~HasDot(s) /\ s \in NilSpellings => parsed = Ok(Nil)
       /\ ~HasBool(s) /\ ~HasDot(s) /\ s \notin NilSpellings
            => parsed = Ok(IF n.ok THEN Integer(n.val) ELSE String(s))
       /\ FromTestCases

\* A float text was parsed by rule (2), and an integer text by rule (4).
C1_Witness ==
  /\ pc = "done"
  /\ \/ text = S(<<"1", "0", ".", "0", "1">>) /\ parsed = Ok(Number(Dec(FALSE, S(<<"1", "0", "0", "1">>), -2)))
     \/ text = S(<<"-", "1", "0">>) /\ parsed = Ok(Integer(I64(-10)))

\* C4 as claimed: every casing of "null" parses to Nil, and so do "nil" and
\* "Nil"; the other casings of "nil" do not.
C4_NullAnyCase ==
  pc = "done" =>
    /\ Lower(text) = S(<<"n", "u", "l", "l">>) => parsed = Ok(Nil)
    /\ text \in {S(<<"n", "i", "l">>), S(<<"N", "i", "l">>)} => parsed = Ok(Nil)
    /\ Lower(text) = S(<<"n", "i", "l">>) /\ text \notin {S(<<"n", "i", "l">>), S(<<"N", "i", "l">>)}
         => parsed # Ok(Nil)

\* C4 amended: the texts that parse to Nil are exactly "null", "Null", "NULL",
\* "nil" and "Nil"; every other casing of null or nil parses to the String of
\* the text.
C4_NilSpellings ==
  pc = "done" =>
    /\ parsed = Ok(Nil) <=> text \in NilSpellings
    /\ Lower(text) \in {S(<<"n", "u", "l", "l">>), S(<<"n", "i", "l">>)} /\ text \notin NilSpellings
         => parsed = Ok(String(text))

\* "NULL" was parsed to Nil and "nULL" to a String.
C4_Witness ==
  /\ pc = "done"
  /\ \/ text = S(<<"N", "U", "L", "L">>) /\ parsed = Ok(Nil) /\ value = NoValue
     \/ text = S(<<"n", "U", "L", "L">>) /\ parsed = Ok(String(text))

\* C5: from_str returns Ok for every text, and a text that parses as no bool,
\* float, nil or integer gives the String of the text, unchanged.
C5_ParseTotal ==
  pc = "done" =>
    /\ parsed.ok
    /\ ~ParseBool(text).ok /\ ~ParseF64(text).ok /\ text \notin NilSpellings /\ ~ParseI64(text).ok
         => parsed = Ok(String(text))

\* A text that parses as nothing was parsed.
C5_Witness ==
  /\ pc = "done"
  /\ text = S(<<"1", "0", ".", "_">>)
  /\ ~ParseF64(text).ok
  /\ parsed = Ok(String(text))

\* C10 as claimed: the text an Integer, a Number, a Boolean or Nil displays as
\* parses back to that value.
C10_TextRoundTrip ==
  pc = "done" /\ value # NoValue /\ value.tag \in {"Integer", "Number", "Boolean", "Nil"}
    => parsed = Ok(value)

(***************************************************************************)
(* The claims about the conversions.                                       *)
(***************************************************************************)
\* C2 as claimed: a Value of one variant converted into the native type of
\* another variant fails with InvalidType, whatever the two variants.
C2_StrictEveryTarget ==
  pc = "converted" /\ VariantOf(target) # value.tag => result = Err("InvalidType")

\* C2 amended: a Value of one variant converted into the native type of
\* another variant fails with InvalidType when that type is not String.
\* Converted into a String, an Integer, a Number, a Boolean and Nil give the
\* text they display as, and Bytes give their text or a decode error.
C2_StrictButString ==
  pc = "converted" /\ VariantOf(target) # value.tag =>
    IF target # "String" THEN result = Err("InvalidType")
    ELSE IF value.tag = "Bytes" THEN result \in {Ok(value.val), Err("DecodeError")}
    ELSE result = Ok(to_string(value))

\* Number(1.0) was refused as an i64, and Integer(1) was made a String.
C2_Witness ==
  /\ pc = "converted"
  /\ \/ value = Number(Dec(FALSE, S(<<"1">>), 0)) /\ target = "i64" /\ result = Err("InvalidType")
     \/ value = Integer(I64(1)) /\ target = "String" /\ result = Ok(S(<<"1">>))

\* The assertions of from_value.
FromValueCases ==
  /\ native = [ty |-> "i32", nat |-> <<10, 0>>] => value = Integer(I64(10))
  /\ native = [ty |-> "f64", nat |-> Dec(FALSE, S(<<"1", "0">>), 0)]
       => value = Number(Dec(FALSE, S(<<"1">>), 1))
  /\ native = [ty |-> "bool", nat |-> FALSE] => value = Boolean(FALSE)
  /\ native = [ty |-> "&str", nat |-> S(<<"N", "a", "m", "e">>)] => value = String(S(<<"N", "a", "m", "e">>))
  /\ native = [ty |-> "()", nat |-> <<>>] => value = Nil
  /\ native = [ty |-> "Bytes", nat |-> <<9, 18>>] => value = Bytes(<<9, 18>>)

\* C3: a native value of a type with both conversions, made a Value and
\* converted back into its type, is returned as it was. The assertions of
\* from_value hold.
C3_NativeRoundTrip ==
  /\ pc = "converted" /\ native # NoNative /\ target = native.ty => result = Ok(native.nat)
  /\ pc \in {"try_from", "converted"} /\ native # NoNative
       => value.tag = VariantOf(native.ty) /\ FromValueCases

\* The u8 255, the i64 minimum and the f32 1.5 went through a Value and back.
C3_Witness ==
  /\ pc = "converted"
  /\ target = native.ty
  /\ \/ native = [ty |-> "u8", nat |-> <<255>>] /\ value = Integer(I64(255)) /\ result = Ok(<<255>>)
     \/ native = [ty |-> "i64", nat |-> I64Min] /\ result = Ok(I64Min)
     \/ native = [ty |-> "f32", nat |-> Dec(FALSE, S(<<"1", "5">>), -1)] /\ result.ok

\* C8: a String, an Integer, a Number, a Boolean and Nil convert into a String
\* (a String into its own text, Nil into "Nil"); Bytes convert when they are
\* UTF-8 and fail with a decode error when they are not.
C8_ToStringFailsOnlyOnBytes ==
  pc = "converted" /\ target = "String" =>
    /\ value.tag \in {"String", "Integer", "Number", "Boolean", "Nil"} => result.ok
    /\ value.tag = "String" => result = Ok(value.val)
    /\ value.tag = "Nil" => result = Ok(S(<<"N", "i", "l">>))
    /\ value.tag = "Bytes" =>
         /\ Utf8Valid(value.val) => result = Ok(value.val)
         /\ ~Utf8Valid(value.val) => result = Err("DecodeError")
         /\ value.val = <<195, 169>> => result.ok
         /\ value.val \in {<<255>>, <<128>>, <<195>>, <<195, 65>>} => ~result.ok

\* Bytes that are no UTF-8 were refused, and Bytes that are were converted.
C8_Witness ==
  /\ pc = "converted"
  /\ target = "String"
  /\ \/ value = Bytes(<<195, 65>>) /\ result = Err("DecodeError")
     \/ value = Bytes(<<195, 169>>) /\ result = Ok(<<195, 169>>)

NarrowTypes == {"i32", "i16", "i8", "u32", "u16", "u8"}

\* C9: an Integer converts into every narrower integer type, whatever its 64
\* bits: the result is the low bits of n, n modulo 2^w read in the signedness
\* of the type. Integer(300) gives the u8 44, Integer(-1) the u32 4294967295.
C9_TruncatingCast ==
  pc = "converted" /\ value.tag = "Integer" /\ target \in NarrowTypes =>
    LET n == value.val
    IN /\ result.ok
       /\ Len(result.val) = Limbs(target)
       /\ \A i \in 1..Limbs(target) :
            result.val[i] = IF target \in {"i8", "u8"} THEN n[i] % 256 ELSE n[i]
       /\ n = I64(300) /\ target = "u8" => result = Ok(<<44>>)
       /\ n = I64(-1) /\ target = "u32" => result = Ok(<<65535, 65535>>)
       /\ n = I64(-129) /\ target = "i8" => result = Ok(<<127>>)

\* An Integer out of the range of the type was converted.
C9_Witness ==
  /\ pc = "converted"
  /\ \/ value = Integer(I64(300)) /\ target = "u8" /\ result = Ok(<<44>>)
     \/ value = Integer(I64Max) /\ target = "i16" /\ result = Ok(<<65535>>)

(***************************************************************************)
(* The claims about the adapter.                                           *)
(***************************************************************************)
ExtractionErrors == {Err("MissingArgument"), Err("InvalidType"), Err("DecodeError")}

ByValue(f) == {i \in 1..Len(f) : ~IsReference(f[i])}

====
